---- MODULE Spec2Model ----
(***************************************************************************)
(* A model of homer.py: the line parser (LinkParser), the document model   *)
(* (HomerModel, LinkGroup, Link), the template stamper (stamp_template)    *)
(* and the render/write driver (write_content, main).                      *)
(*                                                                         *)
(* Text is a sequence of one-character strings, so that strip, split,      *)
(* startswith and replace are computed character by character.            *)
(***************************************************************************)
EXTENDS Integers, Sequences, FiniteSets, TLC

VARIABLES
    pc,                 \* position of the run in main / write_content
    fs,                 \* the file system facts the run depends on
    input_file,         \* the lines of the links file, in file order
    line_number,        \* number of lines process_file has handed to process_line
    link_groups,        \* HomerModel.link_groups
    current_link_group, \* HomerModel.current_link_group: 0 is None, else an index
    errors,             \* line numbers printed by "Error on line N"
    gi,                 \* render: index of the group being rendered
    li,                 \* render: index of the link being rendered in that group
    links_content,      \* LinkGroup.to_string: links_content
    link_groups_content,\* HomerModel.to_string: link_groups_content
    stats,              \* write_content: stats = homer_model.get_stats()
    page_tokens,        \* write_content: the token list given to the page stamp
    stamps,             \* number of successful stamps per template
    content,            \* write_content: content, the stamped page
    output_file,        \* the output file: <<"untouched">>, <<"truncated">> or <<"written", text>>
    report,             \* the fatal error printed: "none", "input", "template" or "output"
    exit_code,          \* -1 while running, else the status of the process
    template,           \* stamp_template alone: the text of the template file
    tokens,             \* stamp_template alone: the token list
    stamped,            \* stamp_template alone: the result
    link_args,          \* Link.__init__ alone: <<name, url, description>>
    link_obj            \* Link.__init__ alone: the constructed link

vars == <<pc, fs, input_file, line_number, link_groups, current_link_group,
          errors, gi, li, links_content, link_groups_content, stats,
          page_tokens, stamps, content, output_file, report, exit_code,
          template, tokens,
          stamped, link_args, link_obj>>

modelVars == <<link_groups, current_link_group, errors>>
renderVars == <<gi, li, links_content, link_groups_content, stats, page_tokens,
                stamps, content, output_file>>
stampVars == <<template, tokens, stamped>>
linkVars == <<link_args, link_obj>>

-----------------------------------------------------------------------------
(* Bounds *)

MaxLines == 3       \* lines in a links file
MaxLineLen == 3     \* characters in an exhaustively enumerated line
MaxUrlLen == 2      \* characters after the prefix of an enumerated url
MaxPieces == 2      \* pieces in an enumerated template

-----------------------------------------------------------------------------
(* Text helpers *)

Whitespace == {" ", "\t", "\n"}

RECURSIVE SeqsUpTo(_, _)
SeqsUpTo(S, n) ==
    IF n = 0 THEN {<<>>}
    ELSE LET shorter == SeqsUpTo(S, n - 1)
         IN  shorter \cup {Append(s, c) : s \in {t \in shorter : Len(t) = n - 1}, c \in S}

RECURSIVE LStrip(_)
LStrip(s) ==
    IF s = <<>> THEN s
    ELSE IF Head(s) \in Whitespace THEN LStrip(Tail(s)) ELSE s

RECURSIVE RStrip(_)
RStrip(s) ==
    IF s = <<>> THEN s
    ELSE IF s[Len(s)] \in Whitespace THEN RStrip(SubSeq(s, 1, Len(s) - 1)) ELSE s

Strip(s) == RStrip(LStrip(s))

StartsWith(s, p) == Len(s) >= Len(p) /\ SubSeq(s, 1, Len(p)) = p

RECURSIVE Split(_, _)
Split(s, sep) ==
    IF \A i \in 1..Len(s) : s[i] # sep THEN <<s>>
    ELSE LET k == CHOOSE i \in 1..Len(s) :
                      s[i] = sep /\ \A j \in 1..(i - 1) : s[j] # sep
         IN  <<SubSeq(s, 1, k - 1)>> \o Split(SubSeq(s, k + 1, Len(s)), sep)

\* the positions where old occurs in s
Occurrences(s, old) ==
    {i \in 1..(Len(s) - Len(old) + 1) : SubSeq(s, i, i + Len(old) - 1) = old}

\* str.replace for a non-empty old: the occurrences from the left, not overlapping
RECURSIVE Replace(_, _, _)
Replace(s, old, new) ==
    IF Occurrences(s, old) = {} THEN s
    ELSE LET k == CHOOSE i \in Occurrences(s, old) :
                      \A j \in Occurrences(s, old) : i <= j
         IN  SubSeq(s, 1, k - 1) \o new
             \o Replace(SubSeq(s, k + Len(old), Len(s)), old, new)

Digit(d) == CASE d = 0 -> "0" [] d = 1 -> "1" [] d = 2 -> "2" [] d = 3 -> "3"
              [] d = 4 -> "4" [] d = 5 -> "5" [] d = 6 -> "6" [] d = 7 -> "7"
              [] d = 8 -> "8" [] d = 9 -> "9"

RECURSIVE Str(_)
Str(n) == IF n < 10 THEN <<Digit(n)>> ELSE Str(n \div 10) \o <<Digit(n % 10)>>

RECURSIVE Concat(_)
Concat(ss) == IF ss = <<>> THEN <<>> ELSE Head(ss) \o Concat(Tail(ss))

RECURSIVE SumSeq(_)
SumSeq(ns) == IF ns = <<>> THEN 0 ELSE Head(ns) + SumSeq(Tail(ns))

-----------------------------------------------------------------------------
(* Link, LinkGroup, HomerModel *)

HttpPrefix == <<"h", "t", "t", "p", ":", "/", "/">>
HttpsPrefix == <<"h", "t", "t", "p", "s", ":", "/", "/">>
FtpPrefix == <<"f", "t", "p", ":", "/", "/">>
MailtoPrefix == <<"m", "a", "i", "l", "t", "o", ":">>

Schemes == {HttpPrefix, HttpsPrefix, FtpPrefix, MailtoPrefix}

HasScheme(url) == \E p \in Schemes : StartsWith(url, p)

LinkNoGuard(name, url, description) ==
    LET u == Strip(url)
    IN  [name |-> Strip(name),
         url |-> IF ~HasScheme(u) THEN HttpsPrefix \o u ELSE u,
         description |-> Strip(description)]

Link(name, url, description) ==
    LET u == Strip(url)
    IN  [name |-> Strip(name),
         url |-> IF u # <<>> /\ ~HasScheme(u) THEN HttpsPrefix \o u ELSE u,
         description |-> Strip(description)]

LinkGroup(name, description) ==
    [name |-> Strip(name), description |-> Strip(description), links |-> <<>>]

LinkGroup_add_link_front(group, link) == [group EXCEPT !.links = <<link>> \o @]

LinkGroup_add_link(group, link) == [group EXCEPT !.links = Append(@, link)]

\* A model value m is [link_groups, current_link_group, errors].
HomerModel == [link_groups |-> <<>>, current_link_group |-> 0, errors |-> <<>>]

add_link_group_merge(m, name) ==
    LET g == LinkGroup(name, <<>>)
        same == {i \in 1..Len(m.link_groups) : m.link_groups[i].name = g.name}
    IN  IF same # {}
        THEN [m EXCEPT !.current_link_group = CHOOSE i \in same : TRUE]
        ELSE [m EXCEPT !.link_groups = Append(@, g),
                       !.current_link_group = Len(m.link_groups) + 1]

add_link_group(m, name) ==
    [m EXCEPT !.link_groups = Append(@, LinkGroup(name, <<>>)),
              !.current_link_group = Len(m.link_groups) + 1]

add_link_implicit_group(m, name, url, description) ==
    LET m1 == IF m.current_link_group = 0 THEN add_link_group(m, <<>>) ELSE m
    IN  [raised |-> FALSE,
         m |-> [m1 EXCEPT !.link_groups[m1.current_link_group] =
                              LinkGroup_add_link(@, Link(name, url, description))]]

\* raised is TRUE when the ValueError is raised; m is the model afterwards.
add_link(m, name, url, description) ==
    IF m.current_link_group = 0 THEN [raised |-> TRUE, m |-> m]
    ELSE [raised |-> FALSE,
          m |-> [m EXCEPT !.link_groups[m.current_link_group] =
                              LinkGroup_add_link(@, Link(name, url, description))]]

get_stats_groups_only(m) ==
    [groups |-> Len(m.link_groups), total_links |-> Len(m.link_groups)]

get_stats(m) ==
    [groups |-> Len(m.link_groups),
     total_links |-> SumSeq([i \in 1..Len(m.link_groups) |-> Len(m.link_groups[i].links)])]

-----------------------------------------------------------------------------
(* LinkParser.process_line *)

IsSkippedNoStrip(line) == line = <<>> \/ StartsWith(line, <<"#">>)

\* "if not line or line.startswith('#'): return", on the stripped line
IsSkipped(line) == Strip(line) = <<>> \/ StartsWith(Strip(line), <<"#">>)

\* parts = [part.strip() for part in line.split(',')], on the stripped line
Parts(line) ==
    LET raw == Split(Strip(line), ",")
    IN  [i \in 1..Len(raw) |-> Strip(raw[i])]

process_line_last_field(m, line, n) ==
    IF IsSkipped(line) THEN m
    ELSE LET parts == Parts(line)
         IN  IF Len(parts) = 1 THEN add_link_group(m, parts[1])
             ELSE LET r == add_link(m, parts[1], parts[2],
                                    IF Len(parts) > 2 THEN parts[Len(parts)] ELSE <<>>)
                  IN  IF r.raised THEN [m EXCEPT !.errors = Append(@, n)] ELSE r.m

process_line(m, line, n) ==
    IF IsSkipped(line) THEN m
    ELSE LET parts == Parts(line)
         IN  IF Len(parts) = 1 THEN add_link_group(m, parts[1])
             ELSE IF Len(parts) >= 2
             THEN LET r == add_link(m, parts[1], parts[2],
                                    IF Len(parts) > 2 THEN parts[3] ELSE <<>>)
                  IN  IF r.raised THEN [m EXCEPT !.errors = Append(@, n)] ELSE r.m
             ELSE m

-----------------------------------------------------------------------------
(* stamp_template and the to_string methods *)

Token(token, new_value) == [token |-> token, new_value |-> new_value]

TokURL == <<"@", "U", "R", "L">>
TokNAME == <<"@", "N", "A", "M", "E">>
TokDESCRIPTION == <<"@", "D", "E", "S", "C", "R", "I", "P", "T", "I", "O", "N">>
TokLINKS == <<"@", "L", "I", "N", "K", "S">>
TokLINK_COUNT == <<"@", "L", "I", "N", "K", "_", "C", "O", "U", "N", "T">>
TokLINK_GROUPS == <<"@", "L", "I", "N", "K", "_", "G", "R", "O", "U", "P", "S">>
TokTOTAL_GROUPS == <<"@", "T", "O", "T", "A", "L", "_", "G", "R", "O", "U", "P", "S">>
TokTOTAL_LINKS == <<"@", "T", "O", "T", "A", "L", "_", "L", "I", "N", "K", "S">>
TokGENERATED_DATE == <<"@", "G", "E", "N", "E", "R", "A", "T", "E", "D", "_", "D", "A", "T", "E">>
TokHOMER_MODEL == <<"@", "H", "O", "M", "E", "R", "_", "M", "O", "D", "E", "L">>
TokTITLE == <<"@", "T", "I", "T", "L", "E">>
TokSUBTITLE == <<"@", "S", "U", "B", "T", "I", "T", "L", "E">>

ReplaceFirst(s, old, new) ==
    IF Occurrences(s, old) = {} THEN s
    ELSE LET k == CHOOSE i \in Occurrences(s, old) :
                      \A j \in Occurrences(s, old) : i <= j
         IN  SubSeq(s, 1, k - 1) \o new \o SubSeq(s, k + Len(old), Len(s))

RECURSIVE stamp_first_only(_, _)
stamp_first_only(text, toks) ==
    IF toks = <<>> THEN text
    ELSE stamp_first_only(ReplaceFirst(text, Head(toks).token, Head(toks).new_value),
                          Tail(toks))

\* The body of stamp_template once the file is read: content is the file's text.
RECURSIVE stamp_template(_, _)
stamp_template(text, toks) ==
    IF toks = <<>> THEN text
    ELSE stamp_template(Replace(text, Head(toks).token, Head(toks).new_value),
                        Tail(toks))

Link_tokens(link) ==
    <<Token(TokURL, link.url), Token(TokNAME, link.name),
      Token(TokDESCRIPTION, link.description)>>

LinkGroup_tokens(group, links_text) ==
    <<Token(TokNAME, group.name), Token(TokDESCRIPTION, group.description),
      Token(TokLINKS, links_text), Token(TokLINK_COUNT, Str(Len(group.links)))>>

\* created_at.strftime(...) and datetime.now().strftime(...): some date text
CreatedAt == <<"d", "0">>
WrittenAt == <<"d", "1">>

HomerModel_tokens(groups, groups_text) ==
    <<Token(TokLINK_GROUPS, groups_text),
      Token(TokTOTAL_GROUPS, Str(Len(groups))),
      Token(TokTOTAL_LINKS, Str(SumSeq([i \in 1..Len(groups) |-> Len(groups[i].links)]))),
      Token(TokGENERATED_DATE, CreatedAt)>>

\* Config.title and Config.subtitle
Title == <<"T">>
Subtitle == <<"S">>

write_content_tokens(model_text, st) ==
    <<Token(TokHOMER_MODEL, model_text), Token(TokTITLE, Title),
      Token(TokSUBTITLE, Subtitle), Token(TokTOTAL_GROUPS, Str(st.groups)),
      Token(TokTOTAL_LINKS, Str(st.total_links)),
      Token(TokGENERATED_DATE, WrittenAt)>>

\* The template files of the theme, by Config property.
Templates == {"main", "homer", "link_group", "link"}

TemplateText(t) ==
    CASE t = "link" ->
            <<"<", "a", " ">> \o TokURL \o <<" ">> \o TokNAME \o <<" ">>
            \o TokDESCRIPTION \o <<">">>
      [] t = "link_group" ->
            <<"<", "g", " ">> \o TokNAME \o <<" ">> \o TokDESCRIPTION \o <<" ">>
            \o TokLINK_COUNT \o <<":">> \o TokLINKS \o <<">">>
      [] t = "homer" ->
            <<"<", "h", " ">> \o TokTOTAL_GROUPS \o <<" ">> \o TokTOTAL_LINKS
            \o <<" ">> \o TokGENERATED_DATE \o <<":">> \o TokLINK_GROUPS \o <<">">>
      [] t = "main" ->
            <<"<", "p", " ">> \o TokTITLE \o <<" ">> \o TokSUBTITLE \o <<" ">>
            \o TokTOTAL_GROUPS \o <<" ">> \o TokTOTAL_LINKS \o <<" ">>
            \o TokGENERATED_DATE \o <<":">> \o TokHOMER_MODEL \o <<">">>

-----------------------------------------------------------------------------
(* The inputs *)

LineChars == {" ", "#", ",", "a", "\n"}

HeaderLine == <<"G", "\n">>
PaddedHeaderLine == <<" ", "H", " ", "\n">>
LinkLine == <<"a", ",", "b", "\n">>
LongLinkLine == <<"a", ",", " ", "u", " ", ",", "d", ",", "e", "\n">>
CommentLine == <<"#", ",", "a", "\n">>
BlankLine == <<" ", "\n">>

InputLines == {HeaderLine, PaddedHeaderLine, LinkLine, LongLinkLine, CommentLine, BlankLine}

RunLines == {HeaderLine, LinkLine, CommentLine}

Preludes == {<<>>, <<HeaderLine>>, <<HeaderLine, LinkLine>>}

Postludes == {<<>>, <<HeaderLine, LinkLine>>}

ParseInputs ==
    SeqsUpTo(InputLines, MaxLines)
    \cup {p \o <<l>> \o q : p \in Preludes, l \in SeqsUpTo(LineChars, MaxLineLen),
                            q \in Postludes}

RunInputs == SeqsUpTo(RunLines, MaxLines)

FileSystems ==
    [input : BOOLEAN, templates : SUBSET Templates,
     output : {"ok", "open_fails", "write_fails"}]

HealthyFileSystem == [input |-> TRUE, templates |-> Templates, output |-> "ok"]

NoLink == [name |-> <<>>, url |-> <<>>, description |-> <<>>]

-----------------------------------------------------------------------------
(* The run: main, process_file, write_content *)

InitModel ==
    /\ link_groups = HomerModel.link_groups
    /\ current_link_group = HomerModel.current_link_group
    /\ errors = HomerModel.errors
    /\ line_number = 0

InitRender ==
    /\ gi = 0
    /\ li = 0
    /\ links_content = <<>>
    /\ link_groups_content = <<>>
    /\ stats = [groups |-> 0, total_links |-> 0]
    /\ page_tokens = <<>>
    /\ stamps = [t \in Templates |-> 0]
    /\ content = <<>>
    /\ output_file = <<"untouched">>
    /\ report = "none"
    /\ exit_code = -1

InitAlone ==
    /\ template = <<>>
    /\ tokens = <<>>
    /\ stamped = <<>>
    /\ link_args = <<<<>>, <<>>, <<>>>>
    /\ link_obj = NoLink

Init ==
    /\ pc = "start"
    /\ fs \in FileSystems
    /\ input_file \in IF fs.input THEN RunInputs ELSE {<<>>}
    /\ InitModel
    /\ InitRender
    /\ InitAlone

\* sys.exit(1) after printing the error
Exit(kind) ==
    /\ pc' = "exited"
    /\ report' = kind
    /\ exit_code' = 1

OpenInput ==
    /\ pc = "start"
    /\ IF fs.input
       THEN pc' = "parse" /\ UNCHANGED <<report, exit_code>>
       ELSE Exit("input")
    /\ UNCHANGED <<fs, input_file, line_number, modelVars, renderVars, stampVars, linkVars>>

ProcessLine ==
    /\ pc = "parse"
    /\ line_number < Len(input_file)
    /\ LET n == line_number + 1
           m == process_line([link_groups |-> link_groups,
                              current_link_group |-> current_link_group,
                              errors |-> errors], input_file[n], n)
       IN  /\ line_number' = n
           /\ link_groups' = m.link_groups
           /\ current_link_group' = m.current_link_group
           /\ errors' = m.errors
    /\ UNCHANGED <<pc, fs, input_file, renderVars, report, exit_code, stampVars, linkVars>>

ProcessFileReturn ==
    /\ pc = "parse"
    /\ line_number = Len(input_file)
    /\ pc' = "write_content"
    /\ UNCHANGED <<fs, input_file, line_number, modelVars, renderVars, report,
                   exit_code, stampVars, linkVars>>

GetStats ==
    /\ pc = "write_content"
    /\ stats' = get_stats([link_groups |-> link_groups])
    /\ gi' = 1
    /\ li' = 1
    /\ pc' = "to_string"
    /\ UNCHANGED <<fs, input_file, line_number, modelVars, links_content,
                   link_groups_content, page_tokens, stamps, content, output_file,
                   report, exit_code, stampVars, linkVars>>

\* Link.to_string, called from the loop of LinkGroup.to_string
StampLink ==
    /\ pc = "to_string"
    /\ gi <= Len(link_groups)
    /\ li <= Len(link_groups[gi].links)
    /\ IF "link" \in fs.templates
       THEN /\ links_content' = links_content
                    \o stamp_template(TemplateText("link"),
                                      Link_tokens(link_groups[gi].links[li]))
            /\ li' = li + 1
            /\ stamps' = [stamps EXCEPT !["link"] = @ + 1]
            /\ UNCHANGED <<pc, report, exit_code>>
       ELSE Exit("template") /\ UNCHANGED <<links_content, li, stamps>>
    /\ UNCHANGED <<fs, input_file, line_number, modelVars, gi, link_groups_content,
                   stats, page_tokens, content, output_file, stampVars, linkVars>>

\* LinkGroup.to_string after its loop, called from the loop of HomerModel.to_string
StampGroup ==
    /\ pc = "to_string"
    /\ gi <= Len(link_groups)
    /\ li > Len(link_groups[gi].links)
    /\ IF "link_group" \in fs.templates
       THEN /\ link_groups_content' = link_groups_content
                    \o stamp_template(TemplateText("link_group"),
                                      LinkGroup_tokens(link_groups[gi], links_content))
            /\ gi' = gi + 1
            /\ li' = 1
            /\ links_content' = <<>>
            /\ stamps' = [stamps EXCEPT !["link_group"] = @ + 1]
            /\ UNCHANGED <<pc, report, exit_code>>
       ELSE Exit("template") /\ UNCHANGED <<link_groups_content, gi, li, links_content, stamps>>
    /\ UNCHANGED <<fs, input_file, line_number, modelVars, stats, page_tokens,
                   content, output_file, stampVars, linkVars>>

\* HomerModel.to_string after its loop; its result is the first page token
StampHomer ==
    /\ pc = "to_string"
    /\ gi > Len(link_groups)
    /\ IF "homer" \in fs.templates
       THEN /\ page_tokens' = write_content_tokens(
                    stamp_template(TemplateText("homer"),
                                   HomerModel_tokens(link_groups, link_groups_content)),
                    stats)
            /\ stamps' = [stamps EXCEPT !["homer"] = @ + 1]
            /\ pc' = "stamp_main"
            /\ UNCHANGED <<report, exit_code>>
       ELSE Exit("template") /\ UNCHANGED <<page_tokens, stamps>>
    /\ UNCHANGED <<fs, input_file, line_number, modelVars, gi, li, links_content,
                   link_groups_content, stats, content, output_file, stampVars, linkVars>>

StampMainTruncating ==
    /\ pc = "stamp_main"
    /\ output_file' = <<"truncated">>
    /\ IF "main" \in fs.templates
       THEN /\ content' = stamp_template(TemplateText("main"), page_tokens)
            /\ stamps' = [stamps EXCEPT !["main"] = @ + 1]
            /\ pc' = "write"
            /\ UNCHANGED <<report, exit_code>>
       ELSE Exit("template") /\ UNCHANGED <<content, stamps>>
    /\ UNCHANGED <<fs, input_file, line_number, modelVars, gi, li, links_content,
                   link_groups_content, stats, page_tokens, stampVars, linkVars>>

\* content = stamp_template(main_template_file, tokens)
StampMain ==
    /\ pc = "stamp_main"
    /\ IF "main" \in fs.templates
       THEN /\ content' = stamp_template(TemplateText("main"), page_tokens)
            /\ stamps' = [stamps EXCEPT !["main"] = @ + 1]
            /\ pc' = "write"
            /\ UNCHANGED <<report, exit_code>>
       ELSE Exit("template") /\ UNCHANGED <<content, stamps>>
    /\ UNCHANGED <<fs, input_file, line_number, modelVars, gi, li, links_content,
                   link_groups_content, stats, page_tokens, output_file, stampVars,
                   linkVars>>

\* open(output_file, 'w') and file.write(content)
WriteOutput ==
    /\ pc = "write"
    /\ CASE fs.output = "ok" ->
                /\ output_file' = <<"written", content>>
                /\ pc' = "done"
                /\ UNCHANGED <<report, exit_code>>
         [] fs.output = "open_fails" ->
                Exit("output") /\ UNCHANGED output_file
         [] fs.output = "write_fails" ->
                Exit("output") /\ output_file' = <<"truncated">>
    /\ UNCHANGED <<fs, input_file, line_number, modelVars, gi, li, links_content,
                   link_groups_content, stats, page_tokens, stamps, content,
                   stampVars, linkVars>>

\* main returns 0 and the script calls sys.exit(main())
MainReturn ==
    /\ pc = "done"
    /\ pc' = "exited"
    /\ exit_code' = 0
    /\ UNCHANGED <<fs, input_file, line_number, modelVars, renderVars, report,
                   stampVars, linkVars>>

Next ==
    \/ OpenInput
    \/ ProcessLine
    \/ ProcessFileReturn
    \/ GetStats
    \/ StampLink
    \/ StampGroup
    \/ StampHomer
    \/ StampMain
    \/ WriteOutput
    \/ MainReturn

Spec == Init /\ [][Next]_vars

-----------------------------------------------------------------------------
(* process_line alone, on every short line *)

InitParse ==
    /\ pc = "parse"
    /\ fs = HealthyFileSystem
    /\ input_file \in ParseInputs
    /\ InitModel
    /\ InitRender
    /\ InitAlone

NextParse == ProcessLine

SpecParse == InitParse /\ [][NextParse]_vars

-----------------------------------------------------------------------------
(* Link.__init__ alone, on every short url *)

UrlHeads ==
    {<<>>, HttpPrefix, HttpsPrefix, FtpPrefix, MailtoPrefix,
     <<"h", "t", "t", "p", ":", "/">>, <<"H", "T", "T", "P", ":", "/", "/">>,
     <<"m", "a", "i", "l", "t", "o">>}

UrlChars == {"a", " ", ":"}

UrlInputs ==
    {pad \o h \o t : pad \in {<<>>, <<" ">>}, h \in UrlHeads,
                     t \in SeqsUpTo(UrlChars, MaxUrlLen)}

InitLink ==
    /\ pc = "link"
    /\ fs = HealthyFileSystem
    /\ input_file = <<>>
    /\ InitModel
    /\ InitRender
    /\ template = <<>>
    /\ tokens = <<>>
    /\ stamped = <<>>
    /\ link_args \in {<<" ", "n">>, <<"n">>} \X UrlInputs \X {<<>>, <<"d", " ">>}
    /\ link_obj = NoLink

ConstructLink ==
    /\ pc = "link"
    /\ link_obj' = Link(link_args[1], link_args[2], link_args[3])
    /\ pc' = "linked"
    /\ UNCHANGED <<fs, input_file, line_number, modelVars, renderVars, report,
                   exit_code, stampVars, link_args>>

NextLink == ConstructLink

SpecLink == InitLink /\ [][NextLink]_vars

-----------------------------------------------------------------------------
(* stamp_template alone, on every short template *)

Pieces ==
    {TokNAME, TokDESCRIPTION, <<"x">>, <<"@">>, <<"@", "D", "E", "S", "C">>,
     <<"R", "I", "P", "T", "I", "O", "N">>}

StampTemplates == {Concat(ps) : ps \in SeqsUpTo(Pieces, MaxPieces)}

StampValues == Pieces \cup {<<>>}

TokenLists ==
    UNION {{<<Token(TokNAME, v1), Token(TokDESCRIPTION, v2)>>,
            <<Token(TokDESCRIPTION, v2), Token(TokNAME, v1)>>} :
           v1 \in StampValues, v2 \in StampValues}

InitStamp ==
    /\ pc = "stamp"
    /\ fs = HealthyFileSystem
    /\ input_file = <<>>
    /\ InitModel
    /\ InitRender
    /\ template \in StampTemplates
    /\ tokens \in TokenLists
    /\ stamped = <<>>
    /\ link_args = <<<<>>, <<>>, <<>>>>
    /\ link_obj = NoLink

StampAlone ==
    /\ pc = "stamp"
    /\ stamped' = stamp_template(template, tokens)
    /\ pc' = "stamped"
    /\ UNCHANGED <<fs, input_file, line_number, modelVars, renderVars, report,
                   exit_code, template, tokens, linkVars>>

NextStamp == StampAlone

SpecStamp == InitStamp /\ [][NextStamp]_vars

-----------------------------------------------------------------------------
(* Vocabulary of the properties *)

\* the line handed to process_line by the next step of the loop
Cur == input_file[line_number + 1]

LineStep == pc = "parse" /\ line_number < Len(input_file) /\ line_number' = line_number + 1

IsBlank(line) == \A i \in 1..Len(line) : line[i] \in Whitespace

IsComment(line) ==
    \E i \in 1..Len(line) :
        /\ line[i] = "#"
        /\ \A j \in 1..(i - 1) : line[j] \in Whitespace

IsEntry(line) == ~IsBlank(line) /\ ~IsComment(line)

Commas(line) == Cardinality({i \in 1..Len(line) : line[i] = ","})

IsHeaderLine(line) == IsEntry(line) /\ Commas(line) = 0

IsLinkLine(line) == IsEntry(line) /\ Commas(line) >= 1

Fields(line) == Split(line, ",")

TotalLinks(groups) == SumSeq([i \in 1..Len(groups) |-> Len(groups[i].links)])

IsPrefixOf(s, t) == Len(s) <= Len(t) /\ SubSeq(t, 1, Len(s)) = s

HeaderLines(file) == {i \in 1..Len(file) : IsHeaderLine(file[i])}

LinkLines(file) == {i \in 1..Len(file) : IsLinkLine(file[i])}

EveryLinkHasGroup(file) ==
    \A i \in LinkLines(file) : \E j \in HeaderLines(file) : j < i

TokenValue(toks, token) ==
    toks[CHOOSE i \in 1..Len(toks) : toks[i].token = token].new_value

-----------------------------------------------------------------------------
(* C1: a link entry processed while the model has no current group is      *)
(* dropped: the group list stays empty, no link is stored, an error naming *)
(* the line number is reported, the run goes on, and the later lines are   *)
(* processed from an unchanged model.                                      *)

C1_DroppedLink ==
    [][(LineStep /\ IsLinkLine(Cur) /\ current_link_group = 0) =>
          /\ link_groups = <<>>
          /\ link_groups' = <<>>
          /\ current_link_group' = 0
          /\ errors' = Append(errors, line_number + 1)
          /\ pc' = "parse"
          /\ exit_code' = -1]_vars

C1_Witness ==
    /\ errors = <<1>>
    /\ Len(link_groups) = 1
    /\ Len(link_groups[1].links) = 1

(* C6: a group header appends exactly one new group with the trimmed name, *)
(* empty description and no links, and makes it current, also when the     *)
(* name is already used; the current group is absent exactly when the      *)
(* group list is empty and is otherwise the last group.                    *)

C6_HeaderAppends ==
    /\ [](current_link_group = IF link_groups = <<>> THEN 0 ELSE Len(link_groups))
    /\ [][(LineStep /\ IsHeaderLine(Cur)) =>
             /\ link_groups' = Append(link_groups,
                    [name |-> Strip(Cur), description |-> <<>>, links |-> <<>>])
             /\ current_link_group' = Len(link_groups) + 1]_vars

C6_Witness ==
    /\ Len(link_groups) = 3
    /\ link_groups[1].name = link_groups[2].name
    /\ link_groups[3].name # link_groups[1].name
    /\ current_link_group = 3

(* C7: groups and links are in file order and only grow at the end: a link *)
(* entry processed while a current group exists appends exactly one link   *)
(* at the end of the last group and changes nothing else; no step removes, *)
(* reorders or merges anything.                                            *)

C7_AppendOnly ==
    [][/\ IsPrefixOf([i \in 1..Len(link_groups) |-> link_groups[i].name],
                     [i \in 1..Len(link_groups') |-> link_groups'[i].name])
       /\ \A i \in 1..Len(link_groups) :
              IsPrefixOf(link_groups[i].links, link_groups'[i].links)
       /\ (LineStep /\ IsLinkLine(Cur) /\ current_link_group # 0) =>
              LET last == Len(link_groups)
              IN  /\ Len(link_groups') = last
                  /\ \A i \in 1..(last - 1) : link_groups'[i] = link_groups[i]
                  /\ link_groups'[last].name = link_groups[last].name
                  /\ link_groups'[last].description = link_groups[last].description
                  /\ Len(link_groups'[last].links) = Len(link_groups[last].links) + 1
                  /\ current_link_group' = current_link_group]_vars

C7_Witness ==
    /\ Len(link_groups) = 1
    /\ Len(link_groups[1].links) = 2
    /\ link_groups[1].links[1] # link_groups[1].links[2]

(* C8: a line that is empty, only whitespace, or whose first               *)
(* non-whitespace character is '#' leaves the group list, the links and    *)
(* the current group unchanged and reports no error.                       *)

C8_SkippedLine ==
    [][(LineStep /\ ~IsEntry(Cur)) =>
          UNCHANGED <<link_groups, current_link_group, errors>>]_vars

C8_Witness ==
    /\ line_number >= 2
    /\ link_groups # <<>>
    /\ IsComment(input_file[line_number])
    /\ Commas(input_file[line_number]) >= 1
    /\ Head(input_file[line_number]) = " "

(* C9: the link stored for an accepted link entry has the trimmed field 0  *)
(* as name, a url derived from the trimmed field 1 only, and the trimmed   *)
(* field 2 as description when there are three fields or more, else the    *)
(* empty text; later fields are ignored.                                   *)

C9_LinkFields ==
    [][(LineStep /\ IsLinkLine(Cur) /\ current_link_group # 0) =>
          LET f == Fields(Cur)
              g == link_groups'[Len(link_groups')]
              l == g.links[Len(g.links)]
          IN  /\ l.name = Strip(f[1])
              /\ l.url = Link(<<>>, Strip(f[2]), <<>>).url
              /\ l.description = IF Len(f) >= 3 THEN Strip(f[3]) ELSE <<>>]_vars

C9_Witness ==
    /\ line_number = 2
    /\ Len(Fields(input_file[2])) = 4
    /\ Len(link_groups) = 1
    /\ Len(link_groups[1].links) = 1
    /\ link_groups[1].links[1].description = <<"d">>
    /\ link_groups[1].links[1].url = HttpsPrefix \o <<"u">>

(* C4: when every link line is preceded by a group-header line, after      *)
(* process_file the number of groups, the @TOTAL_GROUPS value and the      *)
(* number of group templates stamped equal the number of group-header      *)
(* lines, and the number of links, the @TOTAL_LINKS value and the number   *)
(* of link templates stamped equal the number of link lines.               *)

C4_Counts ==
    EveryLinkHasGroup(input_file) =>
        LET nh == Cardinality(HeaderLines(input_file))
            nl == Cardinality(LinkLines(input_file))
        IN  /\ pc \in {"write_content", "to_string", "stamp_main", "write", "done"} =>
                   Len(link_groups) = nh /\ TotalLinks(link_groups) = nl
            /\ pc \in {"to_string", "stamp_main", "write", "done"} =>
                   stats.groups = nh /\ stats.total_links = nl
            /\ page_tokens # <<>> =>
                   /\ TokenValue(page_tokens, TokTOTAL_GROUPS) = Str(nh)
                   /\ TokenValue(page_tokens, TokTOTAL_LINKS) = Str(nl)
            /\ pc \in {"stamp_main", "write", "done"} =>
                   stamps["link_group"] = nh /\ stamps["link"] = nl

C4_Witness ==
    /\ exit_code = 0
    /\ EveryLinkHasGroup(input_file)
    /\ Cardinality(HeaderLines(input_file)) = 1
    /\ Cardinality(LinkLines(input_file)) = 2
    /\ stamps["link"] = 2

(* C5: a run ends with exit code 0 only on success: whenever the input     *)
(* file or any of the four template files is missing, or the output file   *)
(* cannot be written, the run ends with a non-zero status, whatever the    *)
(* input contains.                                                         *)

C5_ExitCode ==
    (pc = "exited" /\ (~fs.input \/ fs.templates # Templates \/ fs.output # "ok"))
        => exit_code # 0

(* C10: the output file is opened for writing only after the whole input   *)
(* is parsed and the link, group, document and page stamps have all        *)
(* succeeded; a run that ends on a missing input file or template leaves   *)
(* the output file untouched.                                              *)

C10_OutputLast ==
    /\ output_file # <<"untouched">> =>
           /\ fs.input
           /\ line_number = Len(input_file)
           /\ stamps["link"] = TotalLinks(link_groups)
           /\ stamps["link_group"] = Len(link_groups)
           /\ stamps["homer"] = 1
           /\ stamps["main"] = 1
    /\ report \in {"input", "template"} => output_file = <<"untouched">>

C10_Witness ==
    /\ pc = "exited"
    /\ report = "template"
    /\ stamps["homer"] = 1
    /\ stamps["link"] >= 1
    /\ output_file = <<"untouched">>

(* C2 as stated: a trimmed url that starts with none of the four prefixes  *)
(* is stored with https:// in front; one that starts with a prefix is      *)
(* stored unchanged.                                                       *)

C2_AlwaysPrefixed ==
    pc = "linked" =>
        LET u == Strip(link_args[2])
        IN  IF HasScheme(u)
            THEN link_obj.url = u
            ELSE StartsWith(link_obj.url, HttpsPrefix) /\ link_obj.url = HttpsPrefix \o u

(* C2, amended: a non-empty trimmed url that starts with none of the four  *)
(* prefixes is stored with https:// in front; a trimmed url that starts    *)
(* with a prefix, or is empty, is stored unchanged.                        *)

C2_PrefixedUnlessEmpty ==
    pc = "linked" =>
        LET u == Strip(link_args[2])
        IN  IF HasScheme(u) \/ u = <<>>
            THEN link_obj.url = u
            ELSE StartsWith(link_obj.url, HttpsPrefix) /\ link_obj.url = HttpsPrefix \o u

C2_Witness ==
    /\ pc = "linked"
    /\ link_args[2] = <<" ">>
    /\ link_obj.url = <<>>

\* all placeholders substituted at once, in the original template only
RECURSIVE Simultaneous(_, _)
Simultaneous(s, toks) ==
    IF s = <<>> THEN s
    ELSE LET hit == {i \in 1..Len(toks) : StartsWith(s, toks[i].token)}
         IN  IF hit = {} THEN <<Head(s)>> \o Simultaneous(Tail(s), toks)
             ELSE LET i == CHOOSE j \in hit : TRUE
                  IN  toks[i].new_value
                      \o Simultaneous(SubSeq(s, Len(toks[i].token) + 1, Len(s)), toks)

Reversed(toks) == [i \in 1..Len(toks) |-> toks[Len(toks) + 1 - i]]

HasAt(s) == \E i \in 1..Len(s) : s[i] = "@"

\* every '@' of the text starts one of the placeholders
EveryAtIsToken(s, toks) ==
    \A i \in 1..Len(s) :
        s[i] = "@" => \E k \in 1..Len(toks) : StartsWith(SubSeq(s, i, Len(s)), toks[k].token)

(* C3 as stated: stamping gives the text of substituting all placeholders  *)
(* at once in the original template, whatever the order of the token list. *)

C3_Simultaneous ==
    pc = "stamped" =>
        /\ stamped = Simultaneous(template, tokens)
        /\ stamped = stamp_template(template, Reversed(tokens))

(* C3, amended: stamping replaces the placeholders one after another in    *)
(* list order, so a placeholder inside a value inserted by an earlier      *)
(* replacement is substituted by a later one; the result is the            *)
(* simultaneous substitution, whatever the order of the list, when no      *)
(* value contains '@' and every '@' of the template starts a placeholder   *)
(* of the list.                                                            *)

C3_Sequential ==
    pc = "stamped" =>
        /\ (template = tokens[1].token /\ tokens[1].new_value = tokens[2].token) =>
               stamped = tokens[2].new_value
        /\ ((\A k \in 1..Len(tokens) : ~HasAt(tokens[k].new_value))
            /\ EveryAtIsToken(template, tokens)) =>
               /\ stamped = Simultaneous(template, tokens)
               /\ stamped = stamp_template(template, Reversed(tokens))

C3_Witness ==
    /\ pc = "stamped"
    /\ template = TokNAME \o TokNAME
    /\ tokens = <<Token(TokNAME, <<"x">>),
                  Token(TokDESCRIPTION, <<"R", "I", "P", "T", "I", "O", "N">>)>>
    /\ stamped = <<"x", "x">>

====
